---------------------------- MODULE Spec2Model ----------------------------
(***************************************************************************)
(* Model of the qstr / module extraction engine of micropython-rs          *)
(* (crate micropython_src: lib.rs, qstr.rs, module.rs).                    *)
(*                                                                         *)
(* Strings are sequences of Unicode code points (Rust `char`), byte        *)
(* strings are sequences of 0..255.  A Rust panic is the value Panic.      *)
(***************************************************************************)
EXTENDS Integers, Sequences, FiniteSets, TLC

VARIABLES
    pc,                 \* position of the running operation
    arg, ret,           \* argument / result of a pure function under check
    config,             \* Config of the run: [bytes_in_hash, extra_qstrs]
    idents,             \* qstr::Extractor.idents            (HashSet<String>)
    unsorted_qstrs,     \* qstr::Extractor.unsorted_qstrs    (Vec<QStr>)
    extracted,          \* result of qstr::Extractor::finish (ExtractedQstrs)
    all_qstrs,          \* aggregated data model handed to the renderer
    log,                \* history: the (origin, token) references scanned so far
    ncalls,             \* history: number of process_line calls so far
    modules,            \* module::Extractor.modules
    extensible_modules, \* module::Extractor.extensible_modules
    module_delegations, \* module::Extractor.module_delegations
    mlog,               \* history: the declarations scanned so far
    mcalls,             \* history: number of module process_line calls so far
    par,                \* unit-by-unit run: [corpus, unit, line, collected, order]
    build               \* Build::build: [data, data_ok, files, error, published, ...]

vars == <<pc, arg, ret, config, idents, unsorted_qstrs, extracted, all_qstrs, log, ncalls,
          modules, extensible_modules, module_delegations, mlog, mcalls, par, build>>

fvars == <<arg, ret>>
qvars == <<config, idents, unsorted_qstrs, extracted, all_qstrs, log, ncalls>>
mvars == <<modules, extensible_modules, module_delegations, mlog, mcalls>>

None == [none |-> TRUE]
Panic == [panic |-> TRUE]

---------------------------------------------------------------------------
(* Generic sequence helpers.                                               *)

RECURSIVE Flatten(_)
Flatten(ss) == IF ss = <<>> THEN <<>> ELSE Head(ss) \o Flatten(Tail(ss))

Range(s) == {s[i] : i \in 1..Len(s)}

RECURSIVE SeqsUpTo(_, _)
SeqsUpTo(S, n) ==
    IF n = 0 THEN {<<>>}
    ELSE LET R == SeqsUpTo(S, n - 1)
         IN  R \cup {Append(r, x) : r \in {q \in R : Len(q) = n - 1}, x \in S}

---------------------------------------------------------------------------
(* 32-bit arithmetic (std::num::Wrapping<u32>, ^ and &).  A u32 is the    *)
(* pair <<high half, low half>> of its 16-bit halves.                      *)

RECURSIVE BitXor(_, _)
BitXor(a, b) ==
    IF a = 0 THEN b
    ELSE IF b = 0 THEN a
    ELSE ((a + b) % 2) + 2 * BitXor(a \div 2, b \div 2)

RECURSIVE BitAnd(_, _)
BitAnd(a, b) ==
    IF a = 0 \/ b = 0 THEN 0
    ELSE ((a % 2) * (b % 2)) + 2 * BitAnd(a \div 2, b \div 2)

\* n as u32, for 0 <= n < 2^31
ToU32(n) == <<n \div 65536, n % 65536>>

\* Wrapping(a) * Wrapping(k), for a multiplier k < 2^15
WrappingMul(a, k) ==
    LET lo == a[2] * k
        hi == a[1] * k + (lo \div 65536)
    IN  <<hi % 65536, lo % 65536>>

\* a ^ b
U32Xor(a, b) == <<BitXor(a[1], b[1]), BitXor(a[2], b[2])>>

\* a & b
U32And(a, b) == <<BitAnd(a[1], b[1]), BitAnd(a[2], b[2])>>

---------------------------------------------------------------------------
(* lib.rs: BytesIn, Data.                                                  *)

BytesIn == {"One", "Two"}

mask(bytes_in) == IF bytes_in = "One" THEN 255 ELSE 65535

\* "MP_QSTR_"
MP_QSTR_ == <<77, 80, 95, 81, 83, 84, 82, 95>>

\* Data.qstr_ident_translations: '<' -> "lt", '>' -> "gt"
qstr_ident_translations == (60 :> <<108, 116>>) @@ (62 :> <<103, 116>>)

---------------------------------------------------------------------------
(* Rust char / str primitives.                                             *)

is_ascii_control(c) == c <= 31 \/ c = 127

is_ascii(c) == c <= 127

\* str::as_bytes: the UTF-8 encoding of one char
Utf8(c) ==
    IF c < 128 THEN <<c>>
    ELSE IF c < 2048 THEN <<192 + (c \div 64), 128 + (c % 64)>>
    ELSE IF c < 65536 THEN
        <<224 + (c \div 4096), 128 + ((c \div 64) % 64), 128 + (c % 64)>>
    ELSE <<240 + (c \div 262144), 128 + ((c \div 4096) % 64),
           128 + ((c \div 64) % 64), 128 + (c % 64)>>

as_bytes(val) == Flatten([i \in 1..Len(val) |-> Utf8(val[i])])

\* char::len_utf8
len_utf8(c) ==
    IF c < 128 THEN 1 ELSE IF c < 2048 THEN 2 ELSE IF c < 65536 THEN 3 ELSE 4

\* str::len: byte length
RECURSIVE str_len(_)
str_len(val) == IF val = <<>> THEN 0 ELSE len_utf8(Head(val)) + str_len(Tail(val))

\* one lower-case hexadecimal digit, as `{:x}` prints it
HexDigit(d) == IF d < 10 THEN 48 + d ELSE 87 + d

\* write!(output, "\\x{:02x}", c as u8)
HexEscape(c) ==
    LET b == c % 256 IN <<92, 120, HexDigit(b \div 16), HexDigit(b % 16)>>

---------------------------------------------------------------------------
(* qstr.rs: QStr.                                                          *)

RECURSIVE HashFold(_, _)
HashFold(acc, data) ==
    IF data = <<>> THEN acc
    ELSE HashFold(U32Xor(WrappingMul(acc, 33), ToU32(Head(data))), Tail(data))

QStr_hash_nozerofix(data, bytes_in_hash) ==
    U32And(HashFold(ToU32(5381), data), ToU32(mask(bytes_in_hash)))[2]

QStr_hash(data, bytes_in_hash) ==
    LET h == U32And(HashFold(ToU32(5381), data), ToU32(mask(bytes_in_hash)))
    IN  IF h = <<0, 0>> THEN 1 ELSE h[1] * 65536 + h[2]

QStr_ident(val) ==
    MP_QSTR_ \o
    Flatten([i \in 1..Len(val) |->
        IF val[i] \in DOMAIN qstr_ident_translations
        THEN <<95>> \o qstr_ident_translations[val[i]] \o <<95>>
        ELSE <<val[i]>>])

escape_panics(val) ==
    /\ ~ \A i \in 1..Len(val) : ~ is_ascii_control(val[i])
    /\ \E i \in 1..Len(val) : ~ is_ascii(val[i])

QStr_escape_string_ctrl_only(val) ==
    Flatten([i \in 1..Len(val) |->
        IF is_ascii_control(val[i]) THEN HexEscape(val[i]) ELSE <<val[i]>>])

QStr_escape_string(val) ==
    IF \A i \in 1..Len(val) : ~ is_ascii_control(val[i]) THEN val
    ELSE Flatten([i \in 1..Len(val) |-> HexEscape(val[i])])

QStr_new_charcount(bytes_in_hash, val, pool, source) ==
    IF escape_panics(val) THEN Panic
    ELSE [pool |-> pool,
          val |-> QStr_escape_string(val),
          ident |-> QStr_ident(val),
          hash |-> QStr_hash(as_bytes(val), bytes_in_hash),
          val_len |-> Len(val),
          source |-> source]

QStr_new_lossy(bytes_in_hash, val, pool, source) ==
    [pool |-> pool,
     val |-> QStr_escape_string(val),
     ident |-> QStr_ident(val),
     hash |-> QStr_hash(as_bytes(val), bytes_in_hash),
     val_len |-> str_len(val),
     source |-> source]

QStr_new(bytes_in_hash, val, pool, source) ==
    IF escape_panics(val) THEN Panic
    ELSE [pool |-> pool,
          val |-> QStr_escape_string(val),
          ident |-> QStr_ident(val),
          hash |-> QStr_hash(as_bytes(val), bytes_in_hash),
          val_len |-> str_len(val),
          source |-> source]

---------------------------------------------------------------------------
(* lib.rs: Data (the built-in lists; a sample of the embedded data files). *)

\* Data.static_qstrs: "", "_", "a"
static_qstrs == << <<>>, <<95>>, <<97>> >>

\* Data.unsorted_qstrs: "<", "b"
builtin_unsorted_qstrs == << <<60>>, <<98>> >>

---------------------------------------------------------------------------
(* qstr.rs: Extractor.  The extractor state is [idents, unsorted_qstrs];   *)
(* an operation that panics yields Panic.                                  *)

\* [_a-zA-Z0-9]
\* a character class that stops only at a space
is_ident_char_nonspace(c) == c # 32

is_ident_char(c) == c \in (48..57) \cup (65..90) \cup (97..122) \cup {95}

HasPrefixAt(line, p, pre) ==
    /\ p + Len(pre) - 1 <= Len(line)
    /\ SubSeq(line, p, p + Len(pre) - 1) = pre

\* end of the longest run of identifier characters starting at p
RECURSIVE RunEnd(_, _)
RunEnd(line, p) ==
    IF p <= Len(line) /\ is_ident_char(line[p]) THEN RunEnd(line, p + 1) ELSE p - 1

\* re.captures_iter(line) for MP_QSTR_([_a-zA-Z0-9]+): capture group 1 of
\* the non-overlapping matches, leftmost first, searching from pos
RECURSIVE qstr_captures(_, _)
qstr_captures(line, pos) ==
    IF pos > Len(line) THEN <<>>
    ELSE IF /\ HasPrefixAt(line, pos, MP_QSTR_)
            /\ pos + Len(MP_QSTR_) <= Len(line)
            /\ is_ident_char(line[pos + Len(MP_QSTR_)])
         THEN LET e == RunEnd(line, pos + Len(MP_QSTR_))
              IN  <<SubSeq(line, pos + Len(MP_QSTR_), e)>> \o qstr_captures(line, e + 1)
         ELSE qstr_captures(line, pos + 1)

\* QStr::new mapped over a list of values; the map panics if an entry does
QStrs_of(bih, vals, pool, source) ==
    [i \in 1..Len(vals) |-> QStr_new(bih, vals[i], pool, source)]

Panicked(qs) == \E i \in 1..Len(qs) : qs[i] = Panic

Extractor_new(bih) ==
    LET seeds == QStrs_of(bih, static_qstrs \o builtin_unsorted_qstrs, 0, "Built in statics")
        unsorted == QStrs_of(bih, builtin_unsorted_qstrs, 0, "Built in unsorted")
    IN  IF Panicked(seeds) \/ Panicked(unsorted) THEN Panic
        ELSE [idents |-> {seeds[i].ident : i \in 1..Len(seeds)},
              unsorted_qstrs |-> unsorted]

\* the body of the loop of process_line, for one capture s
push_capture_nodedup(bih, st, source, s) ==
    LET qstr == QStr_new(bih, s, 1, source)
    IN  IF qstr = Panic THEN Panic
        ELSE [idents |-> st.idents \cup {qstr.ident},
              unsorted_qstrs |-> Append(st.unsorted_qstrs, qstr)]

push_capture_front(bih, st, source, s) ==
    LET qstr == QStr_new(bih, s, 1, source)
    IN  IF qstr = Panic THEN Panic
        ELSE IF qstr.ident \notin st.idents
        THEN [idents |-> st.idents \cup {qstr.ident},
              unsorted_qstrs |-> <<qstr>> \o st.unsorted_qstrs]
        ELSE st

push_capture(bih, st, source, s) ==
    LET qstr == QStr_new(bih, s, 1, source)
    IN  IF qstr = Panic THEN Panic
        ELSE IF qstr.ident \notin st.idents
        THEN [idents |-> st.idents \cup {qstr.ident},
              unsorted_qstrs |-> Append(st.unsorted_qstrs, qstr)]
        ELSE st

RECURSIVE push_captures(_, _, _, _)
push_captures(bih, st, source, caps) ==
    IF st = Panic \/ caps = <<>> THEN st
    ELSE push_captures(bih, push_capture(bih, st, source, Head(caps)), source, Tail(caps))

Extractor_process_line(bih, st, source, line) ==
    push_captures(bih, st, source, qstr_captures(line, 1))

\* finish() with the two lists handed back under each other's name
Extractor_finish_swapped(bih, st) ==
    LET statics == QStrs_of(bih, static_qstrs, 0, "Built in unsorted")
    IN  IF Panicked(statics) THEN Panic
        ELSE [static_qstrs |-> st.unsorted_qstrs, unsorted_qstrs |-> statics]

Extractor_finish(bih, st) ==
    LET statics == QStrs_of(bih, static_qstrs, 0, "Built in unsorted")
    IN  IF Panicked(statics) THEN Panic
        ELSE [static_qstrs |-> statics, unsorted_qstrs |-> st.unsorted_qstrs]

---------------------------------------------------------------------------
(* The aggregator (spec.md 4.5): the configured extra symbols are appended *)
(* to the discovered list as pool-1 records, and all symbols are the       *)
(* static list followed by the discovered list.                            *)

Aggregate(bih, ex, extra_qstrs) ==
    LET extras == QStrs_of(bih, extra_qstrs, 1, "Extra")
    IN  IF Panicked(extras) THEN Panic
        ELSE [static_qstrs |-> ex.static_qstrs,
              unsorted_qstrs |-> ex.unsorted_qstrs \o extras,
              all_qstrs |-> ex.static_qstrs \o ex.unsorted_qstrs \o extras]

---------------------------------------------------------------------------
(* module.rs: Extractor.  The extractor state is                           *)
(* [modules, extensible_modules, module_delegations].                      *)

\* "MP_REGISTER_MODULE"
MP_REGISTER_MODULE ==
    <<77, 80, 95, 82, 69, 71, 73, 83, 84, 69, 82, 95, 77, 79, 68, 85, 76, 69>>

\* "MP_REGISTER_EXTENSIBLE_MODULE"
MP_REGISTER_EXTENSIBLE_MODULE ==
    <<77, 80, 95, 82, 69, 71, 73, 83, 84, 69, 82, 95, 69, 88, 84, 69, 78, 83,
      73, 66, 76, 69, 95, 77, 79, 68, 85, 76, 69>>

\* "MP_REGISTER_MODULE_DELEGATION"
MP_REGISTER_MODULE_DELEGATION ==
    <<77, 80, 95, 82, 69, 71, 73, 83, 84, 69, 82, 95, 77, 79, 68, 85, 76, 69,
      95, 68, 69, 76, 69, 71, 65, 84, 73, 79, 78>>

\* the alternatives of capture group 1, in the order the pattern lists them
ModuleKeywords ==
    <<MP_REGISTER_MODULE, MP_REGISTER_EXTENSIBLE_MODULE, MP_REGISTER_MODULE_DELEGATION>>

\* \s
is_whitespace(c) ==
    c \in (9..13) \cup {32, 133, 160, 5760} \cup (8192..8202)
          \cup {8232, 8233, 8239, 8287, 12288}

\* least index i >= p with line[i] = c, or 0
RECURSIVE IndexOf(_, _, _)
IndexOf(line, p, c) ==
    IF p > Len(line) THEN 0
    ELSE IF line[p] = c THEN p
    ELSE IndexOf(line, p + 1, c)

\* least index j >= p with line[j..j+1] = ");", or 0
RECURSIVE IndexOfClose(_, _)
IndexOfClose(line, p) ==
    IF p + 1 > Len(line) THEN 0
    ELSE IF line[p] = 41 /\ line[p + 1] = 59 THEN p
    ELSE IndexOfClose(line, p + 1)

\* least index w >= p with line[w] not whitespace (Len(line) + 1 if none)
RECURSIVE SkipWhitespace(_, _)
SkipWhitespace(line, p) ==
    IF p <= Len(line) /\ is_whitespace(line[p]) THEN SkipWhitespace(line, p + 1) ELSE p

\* the match of keyword k at pos: <<ty, qstr, symbol, index after the match>>,
\* or <<>> when `k\((.*?),\s*(.*?)\);` does not match at pos
ModuleMatchAt(line, pos, k) ==
    LET q == pos + Len(k) + 1
        i == IndexOf(line, q, 44)
        w == SkipWhitespace(line, i + 1)
        j == IndexOfClose(line, w)
    IN  IF /\ HasPrefixAt(line, pos, k)
           /\ pos + Len(k) <= Len(line)
           /\ line[pos + Len(k)] = 40
           /\ i # 0
           /\ j # 0
        THEN <<k, SubSeq(line, q, i - 1), SubSeq(line, w, j - 1), j + 2>>
        ELSE <<>>

\* re.captures_iter(line): the capture groups of the non-overlapping matches,
\* leftmost first, the first alternative that matches at a position winning
RECURSIVE module_captures(_, _)
module_captures(line, pos) ==
    IF pos > Len(line) THEN <<>>
    ELSE LET ms == SelectSeq([n \in 1..Len(ModuleKeywords) |->
                                  ModuleMatchAt(line, pos, ModuleKeywords[n])],
                             LAMBDA m : m # <<>>)
         IN  IF ms = <<>> THEN module_captures(line, pos + 1)
             ELSE <<SubSeq(ms[1], 1, 3)>> \o module_captures(line, ms[1][4])

\* char::to_uppercase: a-z and the Latin-1 letters used here; sharp s
\* becomes "SS"
char_to_uppercase(c) ==
    IF c \in 97..122 THEN <<c - 32>>
    ELSE IF c = 223 THEN <<83, 83>>
    ELSE IF c \in (224..254) \ {247} THEN <<c - 32>>
    ELSE <<c>>

to_uppercase(str) == Flatten([i \in 1..Len(str) |-> char_to_uppercase(str[i])])

\* qstr.strip_prefix("MP_QSTR_").unwrap_or(qstr)
strip_prefix_or(str, pre) ==
    IF HasPrefixAt(str, 1, pre) THEN SubSeq(str, Len(pre) + 1, Len(str)) ELSE str

Module_new(source, qstr, symbol) ==
    [qstr_ident |-> qstr,
     upper_name |-> to_uppercase(strip_prefix_or(qstr, MP_QSTR_)),
     symbol |-> symbol,
     source |-> source]

\* the body of the loop of process_line, for one capture <<ty, qstr, symbol>>
push_module_misfiled(st, source, cap) ==
    LET module == Module_new(source, cap[2], cap[3])
    IN  IF cap[1] = MP_REGISTER_MODULE_DELEGATION
        THEN [st EXCEPT !.module_delegations = Append(@, module)]
        ELSE [st EXCEPT !.modules = Append(@, module)]

\* process_line that skips a declaration whose first token is already in
\* the list of its keyword
push_module_dedup(st, source, cap) ==
    LET module == Module_new(source, cap[2], cap[3])
        fresh(l) == \A i \in 1..Len(l) : l[i].qstr_ident # module.qstr_ident
        add(l) == IF fresh(l) THEN Append(l, module) ELSE l
    IN  IF cap[1] = MP_REGISTER_MODULE
        THEN [st EXCEPT !.modules = add(@)]
        ELSE IF cap[1] = MP_REGISTER_EXTENSIBLE_MODULE
        THEN [st EXCEPT !.extensible_modules = add(@)]
        ELSE IF cap[1] = MP_REGISTER_MODULE_DELEGATION
        THEN [st EXCEPT !.module_delegations = add(@)]
        ELSE Panic

push_module(st, source, cap) ==
    LET module == Module_new(source, cap[2], cap[3])
    IN  IF cap[1] = MP_REGISTER_MODULE
        THEN [st EXCEPT !.modules = Append(@, module)]
        ELSE IF cap[1] = MP_REGISTER_EXTENSIBLE_MODULE
        THEN [st EXCEPT !.extensible_modules = Append(@, module)]
        ELSE IF cap[1] = MP_REGISTER_MODULE_DELEGATION
        THEN [st EXCEPT !.module_delegations = Append(@, module)]
        ELSE Panic

RECURSIVE push_modules(_, _, _)
push_modules(st, source, caps) ==
    IF st = Panic \/ caps = <<>> THEN st
    ELSE push_modules(push_module(st, source, Head(caps)), source, Tail(caps))

ModExtractor_new ==
    [modules |-> <<>>, extensible_modules |-> <<>>, module_delegations |-> <<>>]

ModExtractor_process_line(st, source, line) ==
    push_modules(st, source, module_captures(line, 1))

ModExtractor_finish(st) ==
    [modules |-> st.modules,
     extensible_modules |-> st.extensible_modules,
     module_delegations |-> st.module_delegations]

---------------------------------------------------------------------------
(* Idle values of the state a specification does not use.                  *)

IdleF == arg = None /\ ret = None
IdleQ == /\ config = [bytes_in_hash |-> "Two", extra_qstrs |-> <<>>] /\ idents = {} /\ unsorted_qstrs = <<>>
         /\ extracted = None /\ all_qstrs = None /\ log = <<>> /\ ncalls = 0
IdleM == /\ modules = <<>> /\ extensible_modules = <<>>
         /\ module_delegations = <<>> /\ mlog = <<>> /\ mcalls = 0
IdleP == par = None
IdleB == build = None

---------------------------------------------------------------------------
(* SpecHash: QStr::hash applied to every byte string over HashBytes of     *)
(* length at most MaxHashLen, for both hash widths.                        *)

MaxHashLen == 3

\* 165 masks to 0 in 8 bits, "TN?" (84 78 63) masks to 0 in 16 bits
HashBytes == {0, 63, 78, 84, 165, 255}

InitHash ==
    /\ pc = "hash_call"
    /\ arg \in [data : SeqsUpTo(HashBytes, MaxHashLen), bytes_in_hash : BytesIn]
    /\ ret = None
    /\ IdleQ /\ IdleM /\ IdleP /\ IdleB

HashCall ==
    /\ pc = "hash_call"
    /\ ret' = QStr_hash(arg.data, arg.bytes_in_hash)
    /\ pc' = "hash_ret"
    /\ UNCHANGED <<arg, qvars, mvars, par, build>>

NextHash == HashCall

SpecHash == InitHash /\ [][NextHash]_vars

---------------------------------------------------------------------------
(* SpecQStr: QStr::new applied to every value over ValChars of length at   *)
(* most MaxValLen (and to the golden values), both pools, both widths.     *)

MaxValLen == 2

\* '\n', ESC, '<', '_', 'a', DEL, e-acute (2 bytes), euro sign (3 bytes),
\* U+1F600 (4 bytes)
ValChars == {10, 27, 60, 95, 97, 127, 233, 8364, 128512}

\* "<stdin>"
Stdin == <<60, 115, 116, 100, 105, 110, 62>>

\* "MP_QSTR__lt_stdin_gt_", the identifier the test crate uses for "<stdin>"
MP_QSTR__lt_stdin_gt_ ==
    MP_QSTR_ \o <<95, 108, 116, 95, 115, 116, 100, 105, 110, 95, 103, 116, 95>>

GoldenVals == {Stdin}

InitQStr ==
    /\ pc = "new_call"
    /\ arg \in [val : SeqsUpTo(ValChars, MaxValLen) \cup GoldenVals,
                pool : {0, 1},
                bytes_in_hash : BytesIn,
                source : {"a.c"}]
    /\ ret = None
    /\ IdleQ /\ IdleM /\ IdleP /\ IdleB

NewCall ==
    /\ pc = "new_call"
    /\ ret' = QStr_new(arg.bytes_in_hash, arg.val, arg.pool, arg.source)
    /\ pc' = "new_ret"
    /\ UNCHANGED <<arg, qvars, mvars, par, build>>

NextQStr == NewCall

SpecQStr == InitQStr /\ [][NextQStr]_vars

---------------------------------------------------------------------------
(* Claims about the symbol record computation.                             *)

\* Reference arithmetic on 32-bit vectors: bit i of v is v[i], i in 0..31.
Bits(n) == [i \in 0..31 |-> IF i > 30 THEN 0 ELSE (n \div (2 ^ i)) % 2]

\* (x + y) mod 2^32, by ripple carry
BitsAdd(x, y) ==
    LET carry[i \in 0..31] ==
            IF i = 0 THEN 0
            ELSE (x[i - 1] + y[i - 1] + carry[i - 1]) \div 2
    IN  [i \in 0..31 |-> (x[i] + y[i] + carry[i]) % 2]

\* (x * 33) mod 2^32 = ((x << 5) + x) mod 2^32
BitsMul33(x) == BitsAdd([i \in 0..31 |-> IF i < 5 THEN 0 ELSE x[i - 5]], x)

BitsXor(x, y) == [i \in 0..31 |-> (x[i] + y[i]) % 2]

\* the fold acc = 5381; acc = ((acc * 33) mod 2^32) XOR b, by index
RefFold(data) ==
    LET acc[i \in 0..Len(data)] ==
            IF i = 0 THEN Bits(5381)
            ELSE BitsXor(BitsMul33(acc[i - 1]), Bits(data[i]))
    IN  acc[Len(data)]

RefWidth(bytes_in) == IF bytes_in = "One" THEN 8 ELSE 16

\* the low W bits of the fold, as a number
RefMasked(data, bytes_in) ==
    LET v == RefFold(data)
        sum[i \in 0..RefWidth(bytes_in)] ==
            IF i = 0 THEN 0 ELSE sum[i - 1] + v[i - 1] * (2 ^ (i - 1))
    IN  sum[RefWidth(bytes_in)]

\* C4: for every byte string and each width W in {8, 16} the hash is the
\* DJB-variant fold masked to W bits with 0 replaced by 1; it lies in
\* 1..(2^W - 1) and is never 0.
C4_HashIsMaskedFold ==
    pc = "hash_ret" =>
        LET m == RefMasked(arg.data, arg.bytes_in_hash)
        IN  /\ ret = (IF m = 0 THEN 1 ELSE m)
            /\ ret \in 1..((2 ^ RefWidth(arg.bytes_in_hash)) - 1)
            /\ ret # 0

C4_Witness ==
    /\ pc = "hash_ret"
    /\ arg.bytes_in_hash = "Two"
    /\ Len(arg.data) = 3
    /\ RefMasked(arg.data, arg.bytes_in_hash) = 0
    /\ ret = 1

HasControl(val) == \E i \in 1..Len(val) : val[i] <= 31 \/ val[i] = 127
HasNonAscii(val) == \E i \in 1..Len(val) : val[i] >= 128

HexValue(d) ==
    IF d \in 48..57 THEN d - 48 ELSE IF d \in 97..102 THEN d - 87 ELSE -1

\* reverse of the two-digit hexadecimal substitution: every group of four
\* characters "\xHL" becomes the character 16*H + L; anything else is Bad
Bad == <<-1>>

RECURSIVE HexDecode(_)
HexDecode(s) ==
    IF s = <<>> THEN <<>>
    ELSE IF Len(s) < 4 THEN Bad
    ELSE IF s[1] # 92 \/ s[2] # 120 \/ HexValue(s[3]) < 0 \/ HexValue(s[4]) < 0
         THEN Bad
    ELSE LET rest == HexDecode(SubSeq(s, 5, Len(s)))
         IN  IF rest = Bad THEN Bad
             ELSE <<16 * HexValue(s[3]) + HexValue(s[4])>> \o rest

\* C5: an ASCII value with a control character decodes back from its
\* escaped value; a value without control characters is escaped to itself.
C5_EscapeRoundTrip ==
    pc = "new_ret" =>
        /\ (HasControl(arg.val) /\ ~ HasNonAscii(arg.val)) =>
              /\ ret # Panic
              /\ HexDecode(ret.val) = arg.val
        /\ (~ HasControl(arg.val)) =>
              /\ ret # Panic
              /\ ret.val = arg.val

C5_Witness ==
    /\ pc = "new_ret"
    /\ arg.val = <<97, 27>>
    /\ ret # Panic
    /\ ret.val = <<92, 120, 54, 49, 92, 120, 49, 98>>

\* C6: a value with both a non-ASCII character and an ASCII control
\* character fails (panic, no record); a value with non-ASCII characters
\* and no control character is accepted with escaped value = value.
C6_NonAsciiRejection ==
    pc = "new_ret" =>
        /\ (HasNonAscii(arg.val) /\ HasControl(arg.val)) => ret = Panic
        /\ (HasNonAscii(arg.val) /\ ~ HasControl(arg.val)) =>
              /\ ret # Panic
              /\ ret.val = arg.val

C6_Witness ==
    /\ pc = "new_ret"
    /\ arg.val = <<233, 10>>
    /\ ret = Panic

\* id is the per-character translation of val: a translated character
\* contributes "_<replacement>_", any other character itself
RECURSIVE IdentMatches(_, _)
IdentMatches(id, val) ==
    IF val = <<>> THEN id = <<>>
    ELSE LET c == Head(val)
         IN  IF c \in DOMAIN qstr_ident_translations
             THEN LET r == <<95>> \o qstr_ident_translations[c] \o <<95>>
                  IN  /\ Len(id) >= Len(r)
                      /\ SubSeq(id, 1, Len(r)) = r
                      /\ IdentMatches(SubSeq(id, Len(r) + 1, Len(id)), Tail(val))
             ELSE /\ Len(id) >= 1
                  /\ id[1] = c
                  /\ IdentMatches(Tail(id), Tail(val))

\* C8: the identifier is the namespace prefix followed by the translation
\* of each character, the length is the UTF-8 byte length of the unescaped
\* value, and the golden identifier of "<stdin>" is MP_QSTR__lt_stdin_gt_.
C8_IdentAndLength ==
    (pc = "new_ret" /\ ret # Panic) =>
        /\ Len(ret.ident) >= Len(MP_QSTR_)
        /\ SubSeq(ret.ident, 1, Len(MP_QSTR_)) = MP_QSTR_
        /\ IdentMatches(SubSeq(ret.ident, Len(MP_QSTR_) + 1, Len(ret.ident)), arg.val)
        /\ ret.val_len = Len(as_bytes(arg.val))
        /\ (arg.val = Stdin => /\ ret.ident = MP_QSTR__lt_stdin_gt_
                               /\ ret.val_len = 7)
        /\ (arg.val = <<>> /\ arg.bytes_in_hash = "Two") =>
              (ret.ident = MP_QSTR_ /\ ret.hash = 5381 /\ ret.val_len = 0)

\* a value with a translated character and a 3-byte character: its byte
\* length differs from its character count
C8_Witness ==
    /\ pc = "new_ret"
    /\ ret # Panic
    /\ arg.val = <<60, 8364>>
    /\ ret.val_len = 4
    /\ ret.ident = MP_QSTR_ \o <<95, 108, 116, 95, 8364>>

---------------------------------------------------------------------------
(* Spec: one run of the symbol extractor.  Extractor::new, then up to      *)
(* MaxCalls calls of process_line with any origin and any line of Lines,   *)
(* then finish, then the aggregator; the configured extra symbols are any  *)
(* list of ExtraLists.                                                     *)

MaxCalls == 3

Sources == {"a.c", "b.c"}

\* A line is written as a list of items, <<"ref", token>> for a symbol
\* reference MP_QSTR_<token> and <<"text", t>> for other text, separated
\* by single spaces.
Tok_a == <<97>>
Tok_b == <<98>>
Tok_c == <<99>>
Tok_d9 == <<100, 57>>
Tok_lt == <<95, 108, 116, 95>>
Tok_us == <<95>>

LineItems ==
    { <<>>,
      << <<"ref", Tok_c>> >>,
      << <<"ref", Tok_c>>, <<"ref", Tok_d9>>, <<"ref", Tok_c>> >>,
      << <<"text", <<120, 40>> >>, <<"ref", Tok_a>>, <<"ref", Tok_b>> >>,
      << <<"ref", Tok_lt>>, <<"ref", Tok_d9, <<27, 233, 34>> >> >>,
      << <<"text", MP_QSTR_>>, <<"ref", Tok_us, <<233>> >>, <<"text", <<233, 59>> >> >> }

\* a reference may carry a third element, the characters that follow the
\* token with nothing in between (ESC, e-acute and '"' after d9)
RenderItem(it) ==
    IF it[1] = "ref"
    THEN MP_QSTR_ \o it[2] \o (IF Len(it) = 3 THEN it[3] ELSE <<>>)
    ELSE it[2]

RECURSIVE Render(_)
Render(items) ==
    IF items = <<>> THEN <<>>
    ELSE IF Len(items) = 1 THEN RenderItem(items[1])
    ELSE RenderItem(items[1]) \o <<32>> \o Render(Tail(items))

\* the references of a line, in order, each with the origin of the call
RECURSIVE Refs(_, _)
Refs(source, items) ==
    IF items = <<>> THEN <<>>
    ELSE (IF Head(items)[1] = "ref" THEN << <<source, Head(items)[2]>> >> ELSE <<>>)
         \o Refs(source, Tail(items))

\* "e", "c", "a", and e-acute followed by '\n'
ExtraLists ==
    { <<>>, << <<101>> >>, << <<101>>, <<99>> >>, << <<97>> >>,
      << <<101>>, <<233, 10>> >> }

Init ==
    /\ pc = "scan"
    /\ config \in [bytes_in_hash : BytesIn, extra_qstrs : ExtraLists]
    /\ LET st == Extractor_new(config.bytes_in_hash)
       IN  idents = st.idents /\ unsorted_qstrs = st.unsorted_qstrs
    /\ extracted = None
    /\ all_qstrs = None
    /\ log = <<>>
    /\ ncalls = 0
    /\ IdleF /\ IdleM /\ IdleP /\ IdleB

ProcessLine(source, items) ==
    /\ pc = "scan"
    /\ ncalls < MaxCalls
    /\ LET st == Extractor_process_line(
                    config.bytes_in_hash,
                    [idents |-> idents, unsorted_qstrs |-> unsorted_qstrs],
                    source, Render(items))
       IN  IF st = Panic
           THEN pc' = "panicked" /\ UNCHANGED <<idents, unsorted_qstrs>>
           ELSE /\ idents' = st.idents
                /\ unsorted_qstrs' = st.unsorted_qstrs
                /\ pc' = pc
    /\ log' = log \o Refs(source, items)
    /\ ncalls' = ncalls + 1
    /\ UNCHANGED <<config, extracted, all_qstrs, fvars, mvars, par, build>>

Finish ==
    /\ pc = "scan"
    /\ extracted' = Extractor_finish(
                        config.bytes_in_hash,
                        [idents |-> idents, unsorted_qstrs |-> unsorted_qstrs])
    /\ pc' = "finished"
    /\ UNCHANGED <<config, idents, unsorted_qstrs, all_qstrs, log, ncalls,
                   fvars, mvars, par, build>>

AggregateStep ==
    /\ pc = "finished"
    /\ LET r == Aggregate(config.bytes_in_hash, extracted, config.extra_qstrs)
       IN  IF r = Panic
           THEN pc' = "panicked" /\ all_qstrs' = all_qstrs
           ELSE pc' = "aggregated" /\ all_qstrs' = r
    /\ UNCHANGED <<config, idents, unsorted_qstrs, extracted, log, ncalls,
                   fvars, mvars, par, build>>

Next ==
    \/ \E source \in Sources, items \in LineItems : ProcessLine(source, items)
    \/ Finish
    \/ AggregateStep

Spec == Init /\ [][Next]_vars

---------------------------------------------------------------------------
(* SpecModule: one run of the module extractor.  Extractor::new, then up   *)
(* to MaxCalls calls of process_line with any origin and any line of       *)
(* ModLines, then finish.                                                  *)

\* A line is written as a list of items separated by single spaces:
\* <<"decl", kind, symbol token, whitespace, bound token, display name>>
\* for the declaration KEYWORD(symbol token,<whitespace>bound token); and
\* <<"text", t>> for other text.
Kinds == {"Module", "ExtensibleModule", "Delegation"}

Keyword(kind) ==
    IF kind = "Module" THEN MP_REGISTER_MODULE
    ELSE IF kind = "ExtensibleModule" THEN MP_REGISTER_EXTENSIBLE_MODULE
    ELSE MP_REGISTER_MODULE_DELEGATION

\* "MP_QSTR_time", "TIME", "MP_QSTR_u9", "U9", "xy", "XY", "mod_time", "m"
Sym_time == MP_QSTR_ \o <<116, 105, 109, 101>>
Name_TIME == <<84, 73, 77, 69>>
Sym_u9 == MP_QSTR_ \o <<117, 57>>
Name_U9 == <<85, 57>>
Sym_xy == <<120, 121>>
Name_XY == <<88, 89>>
\* "MP_QSTR_" followed by e-acute, and capital e-acute
Sym_e == MP_QSTR_ \o <<233>>
Name_E == <<201>>
Bound_mod_time == <<109, 111, 100, 95, 116, 105, 109, 101>>
Bound_m == <<109>>

\* "MP_REGISTER_MODULE_X(a, b);": no declaration
NotADecl == MP_REGISTER_MODULE \o <<95, 88, 40, 97, 44, 32, 98, 41, 59>>

ModLineItems ==
    { <<>>,
      << <<"decl", "Module", Sym_time, <<32>>, Bound_mod_time, Name_TIME>> >>,
      << <<"decl", "ExtensibleModule", Sym_time, <<>>, Bound_m, Name_TIME>>,
         <<"decl", "Delegation", Sym_u9, <<9, 32>>, Bound_m, Name_U9>> >>,
      << <<"text", NotADecl>>,
         <<"decl", "Delegation", Sym_xy, <<32>>, Bound_mod_time, Name_XY>> >>,
      << <<"decl", "Module", Sym_u9, <<32>>, Bound_m, Name_U9>>,
         <<"decl", "ExtensibleModule", Sym_e, <<32>>, Bound_m, Name_E>>,
         <<"decl", "Delegation", Sym_time, <<32>>, Bound_mod_time, Name_TIME>> >>,
      << <<"decl", "ExtensibleModule", Sym_xy, <<32, 32>>, Bound_m, Name_XY>>,
         <<"text", <<105, 110, 116, 32, 120, 59>> >> >> }

RenderModItem(it) ==
    IF it[1] = "decl"
    THEN Keyword(it[2]) \o <<40>> \o it[3] \o <<44>> \o it[4] \o it[5] \o <<41, 59>>
    ELSE it[2]

RECURSIVE RenderMod(_)
RenderMod(items) ==
    IF items = <<>> THEN <<>>
    ELSE IF Len(items) = 1 THEN RenderModItem(items[1])
    ELSE RenderModItem(items[1]) \o <<32>> \o RenderMod(Tail(items))

\* the declarations of a line, in order, each with the origin of the call
RECURSIVE Decls(_, _)
Decls(source, items) ==
    IF items = <<>> THEN <<>>
    ELSE (IF Head(items)[1] = "decl"
          THEN << [kind |-> Head(items)[2], qstr |-> Head(items)[3],
                   symbol |-> Head(items)[5], upper |-> Head(items)[6],
                   source |-> source] >>
          ELSE <<>>)
         \o Decls(source, Tail(items))

InitModule ==
    /\ pc = "mscan"
    /\ LET st == ModExtractor_new
       IN  /\ modules = st.modules
           /\ extensible_modules = st.extensible_modules
           /\ module_delegations = st.module_delegations
    /\ mlog = <<>>
    /\ mcalls = 0
    /\ IdleF /\ IdleQ /\ IdleP /\ IdleB

ModProcessLine(source, items) ==
    /\ pc = "mscan"
    /\ mcalls < MaxCalls
    /\ LET st == ModExtractor_process_line(
                    [modules |-> modules,
                     extensible_modules |-> extensible_modules,
                     module_delegations |-> module_delegations],
                    source, RenderMod(items))
       IN  /\ modules' = st.modules
           /\ extensible_modules' = st.extensible_modules
           /\ module_delegations' = st.module_delegations
    /\ mlog' = mlog \o Decls(source, items)
    /\ mcalls' = mcalls + 1
    /\ UNCHANGED <<pc, fvars, qvars, par, build>>

ModFinish ==
    /\ pc = "mscan"
    /\ ret' = ModExtractor_finish(
                  [modules |-> modules,
                   extensible_modules |-> extensible_modules,
                   module_delegations |-> module_delegations])
    /\ pc' = "mfinished"
    /\ UNCHANGED <<arg, qvars, mvars, par, build>>

NextModule ==
    \/ \E source \in Sources, items \in ModLineItems : ModProcessLine(source, items)
    \/ ModFinish

SpecModule == InitModule /\ [][NextModule]_vars

\* the records expected of the declarations of kind `kind` scanned so far
ExpectedModules(kind) ==
    LET ds == SelectSeq(mlog, LAMBDA d : d.kind = kind)
    IN  [i \in 1..Len(ds) |->
            [qstr_ident |-> ds[i].qstr, upper_name |-> ds[i].upper,
             symbol |-> ds[i].symbol, source |-> ds[i].source]]

\* C7: every declaration matched yields exactly one record, in the list of
\* its keyword and in no other, with qstr_ident the first token, symbol the
\* second token and upper_name the first token without the MP_QSTR_ prefix,
\* upper-cased (MP_QSTR_time gives TIME).
C7_ModuleClassification ==
    /\ modules = ExpectedModules("Module")
    /\ extensible_modules = ExpectedModules("ExtensibleModule")
    /\ module_delegations = ExpectedModules("Delegation")
    /\ pc = "mfinished" =>
          /\ ret.modules = ExpectedModules("Module")
          /\ ret.extensible_modules = ExpectedModules("ExtensibleModule")
          /\ ret.module_delegations = ExpectedModules("Delegation")

\* one declaration of each kind on one line: one record in each list
C7_Witness ==
    /\ pc = "mfinished"
    /\ Len(mlog) = 3
    /\ Len(ret.modules) = 1
    /\ Len(ret.extensible_modules) = 1
    /\ Len(ret.module_delegations) = 1
    /\ ret.module_delegations[1].qstr_ident = Sym_time
    /\ ret.module_delegations[1].upper_name = Name_TIME
    /\ ret.module_delegations[1].symbol = Bound_mod_time

---------------------------------------------------------------------------
(* SpecPar: the unit-by-unit, line-by-line run of extract_data over a      *)
(* corpus of translation units, next to an independent collection of the   *)
(* matches of each unit (spec.md 5), in any interleaving and completion    *)
(* order.                                                                  *)

MaxUnitLines == 1

\* Build.source_files
source_files == <<"a.c", "b.c", "c.c">>

\* the lines a preprocessed unit is made of
ParLineItems ==
    { << <<"ref", Tok_c>> >>,
      << <<"ref", Tok_lt>>, <<"ref", Tok_d9>> >>,
      << <<"text", <<120, 40>> >>, <<"ref", Tok_a>>, <<"ref", Tok_b>> >> }

\* the captures of every line of a unit, each with the unit's origin
RECURSIVE UnitMatches(_, _)
UnitMatches(source, lines) ==
    IF lines = <<>> THEN <<>>
    ELSE LET caps == qstr_captures(Render(Head(lines)), 1)
         IN  [i \in 1..Len(caps) |-> <<source, caps[i]>>]
             \o UnitMatches(source, Tail(lines))

\* deduplication of merged matches by identifier, first occurrence kept
RECURSIVE MergeDedup(_, _, _)
MergeDedup(bih, matches, seen) ==
    IF matches = <<>> THEN <<>>
    ELSE LET q == QStr_new(bih, Head(matches)[2], 1, Head(matches)[1])
         IN  IF q.ident \in seen THEN MergeDedup(bih, Tail(matches), seen)
             ELSE <<q>> \o MergeDedup(bih, Tail(matches), seen \cup {q.ident})

\* the per-unit matches merged in the order `units` and deduplicated
Merged(bih, collected, units) ==
    LET st == Extractor_new(bih)
    IN  st.unsorted_qstrs
        \o MergeDedup(bih, Flatten([i \in 1..Len(units) |-> collected[units[i]]]),
                      st.idents)

InitPar ==
    /\ pc = "run"
    /\ config = [bytes_in_hash |-> "Two", extra_qstrs |-> <<>>]
    /\ LET st == Extractor_new(config.bytes_in_hash)
       IN  idents = st.idents /\ unsorted_qstrs = st.unsorted_qstrs
    /\ extracted = None /\ all_qstrs = None /\ log = <<>> /\ ncalls = 0
    /\ par \in [corpus : [1..Len(source_files) -> SeqsUpTo(ParLineItems, MaxUnitLines)],
                unit : {1},
                line : {1},
                collected : {[u \in 1..Len(source_files) |-> <<>>]},
                order : {<<>>}]
    /\ IdleF /\ IdleM /\ IdleB

\* for line in preprocessed.lines() { ... }
SeqLine ==
    /\ pc = "run"
    /\ par.unit <= Len(source_files)
    /\ par.line <= Len(par.corpus[par.unit])
    /\ LET st == Extractor_process_line(
                    config.bytes_in_hash,
                    [idents |-> idents, unsorted_qstrs |-> unsorted_qstrs],
                    source_files[par.unit],
                    Render(par.corpus[par.unit][par.line]))
       IN  /\ idents' = st.idents
           /\ unsorted_qstrs' = st.unsorted_qstrs
    /\ par' = [par EXCEPT !.line = @ + 1]
    /\ UNCHANGED <<pc, config, extracted, all_qstrs, log, ncalls, fvars, mvars, build>>

\* for source in &self.source_files { ... }
SeqNextUnit ==
    /\ pc = "run"
    /\ par.unit <= Len(source_files)
    /\ par.line > Len(par.corpus[par.unit])
    /\ par' = [par EXCEPT !.unit = @ + 1, !.line = 1]
    /\ UNCHANGED <<pc, qvars, fvars, mvars, build>>

\* the matches of unit u are collected, independently of the other units
Collect(u) ==
    /\ pc = "run"
    /\ u \notin Range(par.order)
    /\ par' = [par EXCEPT
                  !.collected[u] = UnitMatches(source_files[u], par.corpus[u]),
                  !.order = Append(@, u)]
    /\ UNCHANGED <<pc, qvars, fvars, mvars, build>>

NextPar ==
    \/ SeqLine
    \/ SeqNextUnit
    \/ \E u \in 1..Len(source_files) : Collect(u)

SpecPar == InitPar /\ [][NextPar]_vars

ParDone ==
    /\ pc = "run"
    /\ par.unit > Len(source_files)
    /\ Len(par.order) = Len(source_files)

\* C9: whatever the interleaving and the completion order of the per-unit
\* collections, merging them in original unit order and deduplicating
\* yields the list of the sequential unit-by-unit, line-by-line run.
C9_MergeInUnitOrderEqualsSequential ==
    ParDone =>
        Merged(config.bytes_in_hash, par.collected,
               [i \in 1..Len(source_files) |-> i]) = unsorted_qstrs

\* the units completed in reverse order, and merging in completion order
\* would have given another list
C9_Witness ==
    /\ ParDone
    /\ par.order = <<3, 2, 1>>
    /\ Len(unsorted_qstrs) = 4
    /\ Merged(config.bytes_in_hash, par.collected, par.order) # unsorted_qstrs

---------------------------------------------------------------------------
(* SpecBuild: Build::new and Build::build of lib.rs.  The embedded data    *)
(* files are an input: they parse or not, and hold the sample lists or a   *)
(* list with a value that cannot be escaped.  A panic ends the run.        *)

GEN_HEADERS ==
    <<"genhdr/root_pointers.h", "genhdr/qstrdefs.generated.h", "genhdr/moduledefs.h",
      "genhdr/mpversion.h", "mphalport.h", "mpconfigport.h">>

\* the contents of the data files: the sample lists, or an unsorted list
\* holding e-acute followed by '\n'
DataSet(name) ==
    IF name = "good"
    THEN [static_qstrs |-> static_qstrs, unsorted_qstrs |-> builtin_unsorted_qstrs]
    ELSE [static_qstrs |-> static_qstrs, unsorted_qstrs |-> << <<98>>, <<233, 10>> >>]

\* extract_data, up to the loop over the source files
extract_data_seed(bih, data) ==
    LET seeds == QStrs_of(bih, data.static_qstrs \o data.unsorted_qstrs, 0, "Built in statics")
        qstrs == QStrs_of(bih, data.unsorted_qstrs, 0, "Built in unsorted")
    IN  IF Panicked(seeds) \/ Panicked(qstrs) THEN Panic
        ELSE [idents |-> {seeds[i].ident : i \in 1..Len(seeds)},
              unsorted_qstrs |-> qstrs]

\* extract_data, the body of the loop over the lines of a unit
extract_data_line(bih, st, source, line) ==
    push_captures(bih, st, source, qstr_captures(line, 1))

\* extract_data, after the loop
extract_data_finish(bih, data, st) ==
    LET statics == QStrs_of(bih, data.static_qstrs, 0, "Built in unsorted")
    IN  IF Panicked(statics) THEN Panic
        ELSE [static_qstrs |-> statics, unsorted_qstrs |-> st.unsorted_qstrs]

\* the order of the steps of Build::build
build_next_render_first(phase) ==
    CASE phase = "clean" -> "mpconfigport"
      [] phase = "mpconfigport" -> "placeholders"
      [] phase = "placeholders" -> "render"
      [] phase = "render" -> "extract_seed"
      [] phase = "extract_seed" -> "extract_units"
      [] phase = "extract_units" -> "extract_finish"
      [] phase = "extract_finish" -> "compile"
      [] phase = "compile" -> "done"

build_next(phase) ==
    CASE phase = "clean" -> "mpconfigport"
      [] phase = "mpconfigport" -> "placeholders"
      [] phase = "placeholders" -> "extract_seed"
      [] phase = "extract_seed" -> "extract_units"
      [] phase = "extract_units" -> "extract_finish"
      [] phase = "extract_finish" -> "render"
      [] phase = "render" -> "compile"
      [] phase = "compile" -> "done"

InitBuild ==
    /\ pc = "new"
    /\ config = [bytes_in_hash |-> "Two", extra_qstrs |-> <<>>]
    /\ idents = {} /\ unsorted_qstrs = <<>>
    /\ extracted = None /\ all_qstrs = None /\ log = <<>> /\ ncalls = 0
    /\ build \in [data : {"good", "bad"},
                  data_ok : BOOLEAN,
                  files : {[h \in Range(GEN_HEADERS) |-> "absent"],
                           [h \in Range(GEN_HEADERS) |-> "stale"]},
                  lib : {"absent"},
                  hdr : {1},
                  unit : {1},
                  line : {0},
                  error : {"none"},
                  published : {None},
                  artifacts : {FALSE}]
    /\ IdleF /\ IdleM /\ IdleP

BuildPanic(err) ==
    /\ pc' = "panicked"
    /\ build' = [build EXCEPT !.error = err]

\* Build::new: Data::new parses the embedded data files
BuildNew ==
    /\ pc = "new"
    /\ IF build.data_ok
       THEN pc' = "clean" /\ UNCHANGED build
       ELSE BuildPanic("ConfigLoadError")
    /\ UNCHANGED <<qvars, fvars, mvars, par>>

\* remove and re-create lib_dir and include_dir
BuildClean ==
    /\ pc = "clean"
    /\ build' = [build EXCEPT !.files = [h \in Range(GEN_HEADERS) |-> "absent"],
                              !.lib = "empty"]
    /\ pc' = build_next("clean")
    /\ UNCHANGED <<qvars, fvars, mvars, par>>

\* gen_mpconfigport
BuildMpconfigport ==
    /\ pc = "mpconfigport"
    /\ build' = [build EXCEPT !.files["mpconfigport.h"] = "rendered"]
    /\ pc' = build_next("mpconfigport")
    /\ UNCHANGED <<qvars, fvars, mvars, par>>

\* File::create of each generated header: an empty file
BuildPlaceholder ==
    /\ pc = "placeholders"
    /\ IF build.hdr <= Len(GEN_HEADERS)
       THEN /\ build' = [build EXCEPT !.files[GEN_HEADERS[build.hdr]] = "empty",
                                      !.hdr = @ + 1]
            /\ pc' = pc
       ELSE /\ build' = [build EXCEPT !.hdr = 1]
            /\ pc' = build_next("placeholders")
    /\ UNCHANGED <<qvars, fvars, mvars, par>>

BuildExtractSeed ==
    /\ pc = "extract_seed"
    /\ LET st == extract_data_seed(config.bytes_in_hash, DataSet(build.data))
       IN  IF st = Panic
           THEN /\ BuildPanic("EncodingError")
                /\ UNCHANGED <<idents, unsorted_qstrs>>
           ELSE /\ idents' = st.idents
                /\ unsorted_qstrs' = st.unsorted_qstrs
                /\ pc' = build_next("extract_seed")
                /\ UNCHANGED build
    /\ UNCHANGED <<config, extracted, all_qstrs, log, ncalls, fvars, mvars, par>>

\* one line of the preprocessed text of the current source file
BuildExtractLine(items) ==
    /\ pc = "extract_units"
    /\ build.unit <= Len(source_files)
    /\ build.line < MaxUnitLines
    /\ LET st == extract_data_line(
                    config.bytes_in_hash,
                    [idents |-> idents, unsorted_qstrs |-> unsorted_qstrs],
                    source_files[build.unit], Render(items))
       IN  IF st = Panic
           THEN /\ BuildPanic("EncodingError")
                /\ UNCHANGED <<idents, unsorted_qstrs>>
           ELSE /\ idents' = st.idents
                /\ unsorted_qstrs' = st.unsorted_qstrs
                /\ pc' = pc
                /\ build' = [build EXCEPT !.line = @ + 1]
    /\ UNCHANGED <<config, extracted, all_qstrs, log, ncalls, fvars, mvars, par>>

\* the end of the lines of the current source file
BuildExtractNextUnit ==
    /\ pc = "extract_units"
    /\ IF build.unit <= Len(source_files)
       THEN /\ build' = [build EXCEPT !.unit = @ + 1, !.line = 0]
            /\ pc' = pc
       ELSE /\ pc' = build_next("extract_units")
            /\ UNCHANGED build
    /\ UNCHANGED <<qvars, fvars, mvars, par>>

BuildExtractFinish ==
    /\ pc = "extract_finish"
    /\ LET r == extract_data_finish(
                    config.bytes_in_hash, DataSet(build.data),
                    [idents |-> idents, unsorted_qstrs |-> unsorted_qstrs])
       IN  IF r = Panic
           THEN BuildPanic("EncodingError") /\ UNCHANGED extracted
           ELSE /\ extracted' = r
                /\ pc' = build_next("extract_finish")
                /\ UNCHANGED build
    /\ UNCHANGED <<config, idents, unsorted_qstrs, all_qstrs, log, ncalls,
                   fvars, mvars, par>>

\* File::create, render_template(template, &data) and write_all of one
\* generated header; the rendering succeeds or panics
BuildRender(ok) ==
    /\ pc = "render"
    /\ IF build.hdr <= Len(GEN_HEADERS)
       THEN IF ok
            THEN /\ build' = [build EXCEPT
                                 !.files[GEN_HEADERS[build.hdr]] = "rendered",
                                 !.published = extracted,
                                 !.hdr = @ + 1]
                 /\ pc' = pc
            ELSE /\ build' = [build EXCEPT
                                 !.files[GEN_HEADERS[build.hdr]] = "empty",
                                 !.published = extracted,
                                 !.error = "RenderError"]
                 /\ pc' = "panicked"
       ELSE /\ ok
            /\ build' = [build EXCEPT !.hdr = 1]
            /\ pc' = build_next("render")
    /\ UNCHANGED <<qvars, fvars, mvars, par>>

\* builder.compile and the returned Artifacts
BuildCompile ==
    /\ pc = "compile"
    /\ build' = [build EXCEPT !.lib = "built", !.artifacts = TRUE]
    /\ pc' = build_next("compile")
    /\ UNCHANGED <<qvars, fvars, mvars, par>>

NextBuild ==
    \/ BuildNew
    \/ BuildClean
    \/ BuildMpconfigport
    \/ BuildPlaceholder
    \/ BuildExtractSeed
    \/ \E items \in ParLineItems : BuildExtractLine(items)
    \/ BuildExtractNextUnit
    \/ BuildExtractFinish
    \/ \E ok \in BOOLEAN : BuildRender(ok)
    \/ BuildCompile

SpecBuild == InitBuild /\ [][NextBuild]_vars

\* the errors of the generation core
CoreErrors == {"ConfigLoadError", "EncodingError", "PatternError"}

\* after a core error nothing was handed to the renderer, no generated
\* header has content, no extraction result and no Artifacts exist
NothingPublished ==
    build.error \in CoreErrors =>
        /\ pc = "panicked"
        /\ build.published = None
        /\ extracted = None
        /\ \A h \in Range(GEN_HEADERS) : build.files[h] # "rendered"
        /\ build.lib # "built"
        /\ ~ build.artifacts

\* C10: a core error aborts the whole run: from then on no step is taken
\* (no further line is processed), and nothing had been handed to the
\* renderer or written into a generated artifact.
C10_ErrorAbortsRun ==
    /\ []NothingPublished
    /\ [][build.error # "none" => UNCHANGED vars]_vars

\* the built-in list holds a value that cannot be escaped: the run stops in
\* extract_data with the six headers still the empty placeholders
C10_Witness ==
    /\ pc = "panicked"
    /\ build.error = "EncodingError"
    /\ \A h \in Range(GEN_HEADERS) : build.files[h] = "empty"
    /\ build.published = None

---------------------------------------------------------------------------
(* Claims about the symbol extractor and the aggregated symbol list.       *)

\* the identifiers of the built-in lists, written out
RefStaticIdents == << MP_QSTR_, MP_QSTR_ \o <<95>>, MP_QSTR_ \o <<97>> >>
RefUnsortedIdents == << MP_QSTR_ \o <<95, 108, 116, 95>>, MP_QSTR_ \o <<98>> >>
RefBuiltinIdents == Range(RefStaticIdents) \cup Range(RefUnsortedIdents)

\* the identifier of a scanned token (identifier characters only)
RefIdent(tok) == MP_QSTR_ \o tok

\* the references of l that are first occurrences of an identifier that is
\* not built in, in scan order
RECURSIVE FirstRefs(_, _)
FirstRefs(l, seen) ==
    IF l = <<>> THEN <<>>
    ELSE IF RefIdent(Head(l)[2]) \in seen THEN FirstRefs(Tail(l), seen)
    ELSE <<Head(l)>> \o FirstRefs(Tail(l), seen \cup {RefIdent(Head(l)[2])})

Count(recs, id) == Cardinality({i \in 1..Len(recs) : recs[i].ident = id})

IsPool1(q) == q.pool = 1

Finished == pc \in {"finished", "aggregated", "panicked"}

\* C1: after any sequence of process_line calls, the discovered list of
\* finish() holds no identifier twice: it holds once every identifier that
\* was scanned or is built-in unsorted and is not a built-in static, and no
\* other; its scan-discovered (pool 1) records are the first occurrences in
\* scan order, each with the origin of that first occurrence.
C1_DiscoveredOnceInFirstOccurrenceOrder ==
    Finished =>
        LET D == extracted.unsorted_qstrs
            scanned == SelectSeq(D, IsPool1)
            F == FirstRefs(log, RefBuiltinIdents)
            present == ({RefIdent(log[i][2]) : i \in 1..Len(log)}
                            \cup Range(RefUnsortedIdents)) \ Range(RefStaticIdents)
        IN  /\ \A i \in 1..Len(D) : D[i].ident \in present
            /\ \A id \in present : Count(D, id) = 1
            /\ Len(scanned) = Len(F)
            /\ \A k \in 1..Len(F) :
                  /\ scanned[k].ident = RefIdent(F[k][2])
                  /\ scanned[k].source = F[k][1]

\* c is scanned first in b.c and again in a.c, d9 twice, a and _lt_ are
\* built in: the discovered list is <, b, c (from b.c), d9
C1_Witness ==
    /\ pc = "finished"
    /\ log = << <<"b.c", Tok_c>>, <<"a.c", Tok_lt>>, <<"a.c", Tok_d9>>,
                <<"a.c", Tok_c>>, <<"a.c", Tok_d9>>, <<"a.c", Tok_c>> >>
    /\ Len(extracted.unsorted_qstrs) = 4
    /\ extracted.unsorted_qstrs[3].source = "b.c"

\* C2: no two records of allSymbols share an identifier.
C2_AllSymbolsUnique ==
    pc = "aggregated" =>
        \A i, j \in 1..Len(all_qstrs.all_qstrs) :
            i # j => all_qstrs.all_qstrs[i].ident # all_qstrs.all_qstrs[j].ident

\* C3: allSymbols is the static list (built-in order, pool 0) followed by
\* the discovered list, which is the built-in unsorted symbols, then the
\* scan-discovered symbols in scan order, then the configured extras in
\* configuration order; no pool-0 record follows a pool-1 record.
C3_AllSymbolsOrder ==
    pc = "aggregated" =>
        LET A == all_qstrs.all_qstrs
            S == all_qstrs.static_qstrs
            D == all_qstrs.unsorted_qstrs
            F == FirstRefs(log, RefBuiltinIdents)
            E == config.extra_qstrs
            ns == Len(RefStaticIdents)
            nu == Len(RefUnsortedIdents)
        IN  /\ A = S \o D
            /\ Len(S) = ns
            /\ \A i \in 1..ns : A[i].ident = RefStaticIdents[i] /\ A[i].pool = 0
            /\ Len(D) = nu + Len(F) + Len(E)
            /\ \A i \in 1..nu : D[i].ident = RefUnsortedIdents[i] /\ D[i].pool = 0
            /\ \A k \in 1..Len(F) :
                  /\ D[nu + k].ident = RefIdent(F[k][2])
                  /\ D[nu + k].source = F[k][1]
                  /\ D[nu + k].pool = 1
            /\ \A k \in 1..Len(E) :
                  /\ D[nu + Len(F) + k].ident = RefIdent(E[k])
                  /\ D[nu + Len(F) + k].pool = 1
            /\ \A i, j \in 1..Len(A) : i < j => ~ (A[i].pool = 1 /\ A[j].pool = 0)

C3_Witness ==
    /\ pc = "aggregated"
    /\ Len(log) >= 3
    /\ Len(FirstRefs(log, RefBuiltinIdents)) >= 2
    /\ Len(config.extra_qstrs) = 2
    /\ Len(all_qstrs.all_qstrs) >= 9

\* C11: the static list returned by finish() is exactly one pool-0 record
\* per entry of the built-in static list, in that list's order, whatever
\* lines were scanned: scanning a static symbol neither removes it from the
\* static list nor adds a record to it.
C11_StaticListUntouchedByScan ==
    Finished =>
        LET S == extracted.static_qstrs
        IN  /\ Len(S) = Len(static_qstrs)
            /\ \A i \in 1..Len(S) :
                  /\ S[i].pool = 0
                  /\ S[i].val = static_qstrs[i]
                  /\ S[i].ident = RefStaticIdents[i]
            /\ \A i, j \in 1..Len(S) : i # j => S[i].ident # S[j].ident

\* the static symbols "a" and "_" were both scanned before finish()
C11_Witness ==
    /\ pc = "finished"
    /\ \E i, j \in 1..Len(log) : log[i][2] = Tok_a /\ log[j][2] = Tok_us
    /\ Len(extracted.static_qstrs) = 3
    /\ Len(extracted.unsorted_qstrs) = 2

\* the number of declarations scanned so far with keyword kind and first
\* token q
DeclCount(kind, q) ==
    Cardinality({i \in 1..Len(mlog) : mlog[i].kind = kind /\ mlog[i].qstr = q})

ModCount(l, q) == Cardinality({i \in 1..Len(l) : l[i].qstr_ident = q})

\* the first tokens and origins of the declarations of a kind, in scan order
DeclOrder(kind) ==
    LET ds == SelectSeq(mlog, LAMBDA d : d.kind = kind)
    IN  [i \in 1..Len(ds) |-> <<ds[i].qstr, ds[i].source>>]

ModOrder(l) == [i \in 1..Len(l) |-> <<l[i].qstr_ident, l[i].source>>]

\* C12: the module extractor performs no deduplication: the three lists
\* together hold as many records as declarations were matched, a module
\* declared n times under one keyword has n records in that keyword's list,
\* and finish() returns each list as it stands, in discovery order.
C12_ModulesNotDeduplicated ==
    /\ Len(modules) + Len(extensible_modules) + Len(module_delegations) = Len(mlog)
    /\ \A i \in 1..Len(mlog) :
          /\ ModCount(modules, mlog[i].qstr) = DeclCount("Module", mlog[i].qstr)
          /\ ModCount(extensible_modules, mlog[i].qstr)
                = DeclCount("ExtensibleModule", mlog[i].qstr)
          /\ ModCount(module_delegations, mlog[i].qstr)
                = DeclCount("Delegation", mlog[i].qstr)
    /\ ModOrder(modules) = DeclOrder("Module")
    /\ ModOrder(extensible_modules) = DeclOrder("ExtensibleModule")
    /\ ModOrder(module_delegations) = DeclOrder("Delegation")
    /\ pc = "mfinished" =>
          /\ ret.modules = modules
          /\ ret.extensible_modules = extensible_modules
          /\ ret.module_delegations = module_delegations

\* MP_REGISTER_MODULE(MP_QSTR_time, mod_time); scanned twice, in a.c and
\* again in a.c: two equal records
C12_Witness ==
    /\ pc = "mfinished"
    /\ Len(mlog) = 2
    /\ mlog[1] = mlog[2]
    /\ Len(ret.modules) = 2
    /\ ret.modules[1] = ret.modules[2]
    /\ ret.modules[1].qstr_ident = Sym_time

\* the characters a matched value may hold: 0-9, A-Z, a-z and '_'
WordChars == (48..57) \cup (65..90) \cup (97..122) \cup {95}

\* C13: process_line never fails with a non-ASCII error, whatever the line
\* holds: a failure is only seen after finish(), and then a configured
\* extra symbol holds a non-ASCII character; every scan-discovered record
\* has pool 1 and a value of letters, digits and underscores only, which
\* is the matched token unescaped.
C13_ProcessLineNeverFails ==
    LET scanned == SelectSeq(unsorted_qstrs, IsPool1)
        F == FirstRefs(log, RefBuiltinIdents)
    IN  /\ pc = "panicked" =>
              /\ extracted # None
              /\ \E i \in 1..Len(config.extra_qstrs) :
                    HasNonAscii(config.extra_qstrs[i])
        /\ Len(unsorted_qstrs) = Len(RefUnsortedIdents) + Len(F)
        /\ \A k \in 1..Len(F) :
              LET q == unsorted_qstrs[Len(RefUnsortedIdents) + k]
              IN  /\ q.pool = 1
                  /\ Range(q.val) \subseteq WordChars
                  /\ q.val = F[k][2]
                  /\ q.val_len = Len(F[k][2])

\* MP_QSTR__lt_ MP_QSTR_d9<ESC><e-acute>" was scanned: d9 is discovered,
\* the characters behind it are not part of the value, and nothing failed
C13_Witness ==
    /\ pc = "scan"
    /\ log = << <<"a.c", Tok_lt>>, <<"a.c", Tok_d9>> >>
    /\ Len(unsorted_qstrs) = 3
    /\ unsorted_qstrs[3].val = Tok_d9
    /\ unsorted_qstrs[3].pool = 1

\* the discovered list and the seen-set of the next state extend those of
\* this state: the list by appending, the set by inclusion
ExtractorGrows ==
    /\ Len(unsorted_qstrs) <= Len(unsorted_qstrs')
    /\ SubSeq(unsorted_qstrs', 1, Len(unsorted_qstrs)) = unsorted_qstrs
    /\ idents \subseteq idents'

SeenCoversDiscovered ==
    /\ \A i \in 1..Len(unsorted_qstrs) : unsorted_qstrs[i].ident \in idents
    /\ Len(SelectSeq(unsorted_qstrs, IsPool1))
          = Cardinality(idents \ RefBuiltinIdents)

\* C14: the extractor's state only grows: every process_line call leaves
\* the previous discovered list as a prefix of the new one, records
\* unchanged, and the previous seen-set a subset of the new one; in every
\* state the identifier of every discovered record is in the seen-set, and
\* the pool-1 records are as many as the identifiers added to the seen-set
\* since construction.
C14_ExtractorStateOnlyGrows ==
    /\ []SeenCoversDiscovered
    /\ [][ExtractorGrows]_vars

\* three calls, the last of which repeats known tokens: two identifiers
\* were added to the five seeded ones, and two pool-1 records
C14_Witness ==
    /\ pc = "scan"
    /\ ncalls = 3
    /\ Len(log) >= 5
    /\ Cardinality(idents) = Cardinality(RefBuiltinIdents) + 2
    /\ Len(unsorted_qstrs) = Len(RefUnsortedIdents) + 2
    /\ unsorted_qstrs[Len(unsorted_qstrs)].pool = 1

===========================================================================
